---- MODULE Spec2Model ----
(***************************************************************************)
(* A model of the Urban Dictionary scraper (src/data/urban_dictionary_     *)
(* scraper.py): the orchestrator main(), its worker tasks                  *)
(* scrape_page_with_retry()/scrape_page(), the run-wide dedup ledger and   *)
(* the CSV writer save_to_csv().                                           *)
(*                                                                         *)
(* Text is a sequence of one-character strings, so that str.lower() and    *)
(* str.strip() are computed rather than assumed.                           *)
(***************************************************************************)
EXTENDS Integers, Sequences, FiniteSets, TLC

\* ------------------------------------------------------------------ bounds
MaxStart == 2       \* --start ranges over 1..MaxStart
MaxEnd == 3         \* --end ranges over 0..MaxEnd
MaxChunk == 2       \* --chunk-size ranges over -1..MaxChunk
MaxWorkers == 2     \* --workers ranges over 0..MaxWorkers
MaxElems == 2       \* at most this many .definition elements on a page
MaxRetries == 3     \* max_retries ranges over 0..MaxRetries when called directly
MaxVoteLen == 2     \* the text of a vote counter has at most this many characters

\* ------------------------------------------------------- program constants
default_max_retries == 3     \* scrape_page_with_retry(page_num, max_retries=3)

\* -------------------------------------------------------------------- text
\* The raw text of the .word element of one definition, as the page holds it.
RawTexts == { <<"L">>, <<"l", " ">>, <<"y">>, <<" ">> }

\* str.lower(), one character
lower_char(c) == IF c = "L" THEN "l" ELSE IF c = "Y" THEN "y" ELSE c

\* str.lower()
lower(s) == [i \in 1..Len(s) |-> lower_char(s[i])]

RECURSIVE lstrip(_)
lstrip(s) == IF s # <<>> /\ Head(s) = " " THEN lstrip(Tail(s)) ELSE s

RECURSIVE rstrip(_)
rstrip(s) ==
    IF s # <<>> /\ s[Len(s)] = " " THEN rstrip(SubSeq(s, 1, Len(s) - 1)) ELSE s

\* str.strip()
strip(s) == rstrip(lstrip(s))

word_key_case_sensitive(word) == strip(word)

\* word.lower().strip(): the dedup key of lines 201 and 331
word_key(word) == strip(lower(word))

\* extract_text_safely(element, ".word"): the stripped text of the element
extract_text_safely(element) == strip(element)

\* ---------------------------------------------------------- extract_votes
\* The characters of the text of a vote counter: a digit, a sign, another
\* character, a blank.
VoteChars == {"5", "-", "x", " "}

VoteTexts == UNION { [1..n -> VoteChars] : n \in 0..MaxVoteLen }

\* What one selector of lines 119-126 yields on an element: the text of the
\* element it finds, or nothing when find_element raises
\* NoSuchElementException or StaleElementReferenceException (line 137).
SelectorOutcomes ==
    {[missing |-> TRUE, text |-> <<>>]}
        \cup { [missing |-> FALSE, text |-> t] : t \in VoteTexts }

\* The three selectors of lines 119-126, tried in this order.
Selectors == 1..3

is_digit_char(c) == c = "5"

digit_value(c) == IF c = "5" THEN 5 ELSE 0

\* str.isdigit()
isdigit(s) == s # <<>> /\ \A i \in 1..Len(s) : is_digit_char(s[i])

RECURSIVE decimal(_)
decimal(s) ==
    IF s = <<>> THEN 0
    ELSE 10 * decimal(SubSeq(s, 1, Len(s) - 1)) + digit_value(s[Len(s)])

\* int(s) of a str: blanks around, an optional sign, then digits; anything
\* else raises ValueError.
int(s) ==
    LET t == strip(s)
        signed == t # <<>> /\ Head(t) \in {"-", "+"}
        body == IF signed THEN Tail(t) ELSE t
    IN  IF isdigit(body)
        THEN [ok |-> TRUE,
              value |-> IF signed /\ Head(t) = "-" THEN 0 - decimal(body) ELSE decimal(body)]
        ELSE [ok |-> FALSE, value |-> 0]

\* The loop of lines 128-138 from selector i on: vote_text after it.
RECURSIVE vote_text_after(_, _, _)
vote_text_after(found, i, vote_text) ==
    IF i > Len(found) THEN vote_text
    ELSE IF found[i].missing THEN vote_text_after(found, i + 1, vote_text)
    ELSE LET text == strip(found[i].text)
         IN  IF text # <<>> /\ isdigit(text) THEN text
             ELSE vote_text_after(found, i + 1, text)

\* extract_votes(element, is_upvote): found[i] is what selector i yields.
extract_votes(found) ==
    LET vote_text == vote_text_after(found, 1, <<>>)
    IN  IF int(vote_text).ok THEN int(vote_text).value ELSE 0

\* ------------------------------------------------------------ scrape_page
\* What can happen while one definition element is extracted:
\*   "no"     nothing raises
\*   "word"   reading the .word text raises (line 196) something that
\*            extract_text_safely does not catch, such as a
\*            WebDriverException of a lost browser connection
\*   "field"  reading one of the other fields raises (lines 208-227)
\* Either exception is caught by line 244 and the loop goes on.
Raises == {"no", "word", "field"}

\* A definition element of a page: the raw text of its .word element and
\* what its extraction raises.
Elements == [text : RawTexts, raises : Raises]

\* The for loop of scrape_page over the definition elements (lines 191-246).
RECURSIVE page_loop(_, _, _, _)
page_loop(elements, page_num, seen_words, entries) ==
    IF elements = <<>> THEN entries
    ELSE LET element == Head(elements)
             word == extract_text_safely(element.text)
             key  == word_key(word)
         IN  IF element.raises = "word"
             THEN page_loop(Tail(elements), page_num, seen_words, entries)
             ELSE IF word = <<>>
             THEN page_loop(Tail(elements), page_num, seen_words, entries)
             ELSE IF key \in seen_words
             THEN page_loop(Tail(elements), page_num, seen_words, entries)
             ELSE IF element.raises = "field"
             THEN page_loop(Tail(elements), page_num, seen_words \cup {key}, entries)
             ELSE page_loop(Tail(elements), page_num, seen_words \cup {key},
                            Append(entries, [word |-> word, page |-> page_num]))

\* What can happen in one call of scrape_page:
\*   "ok"          the page loads and is parsed
\*   "driver_fail" webdriver.Chrome raises in setup_driver (line 58)
\*   "configure_fail" the browser is started and one of lines 59-63 raises
\*   "load_fail"   driver.get or the wait raises: timeout, stale or missing
\*                 element, driver error (lines 181-189)
\*   "quit_fail"   driver.quit() raises in the finally block (line 257)
Faults == {"ok", "driver_fail", "configure_fail", "load_fail", "quit_fail"}

\* One call of scrape_page: exc = an exception leaves the call.
scrape_page(page_num, fault, elements) ==
    CASE fault = "ok"          -> [exc |-> FALSE,
                                   value |-> page_loop(elements, page_num, {}, <<>>)]
      [] fault = "driver_fail" -> [exc |-> FALSE, value |-> <<>>]
      [] fault = "configure_fail" -> [exc |-> FALSE, value |-> <<>>]
      [] fault = "load_fail"   -> [exc |-> FALSE, value |-> <<>>]
      [] fault = "quit_fail"   -> [exc |-> TRUE, value |-> <<>>]

\* The pages a run can find: every sequence of at most MaxElems elements.
PageContents == UNION { [1..n -> Elements] : n \in 0..MaxElems }

\* ------------------------------------------------------------------- state
VARIABLES
    args,               \* the parsed command line: start, end, workers, chunk_size
    max_retries,        \* the max_retries every task of this run is called with
    pc,                 \* where the orchestrator (main) is
    chunk_start,        \* the loop variable of line 311, an index into page_numbers
    chunk_pages,        \* page_numbers[chunk_start:chunk_end] of the running chunk
    tasks,              \* page -> the future of scrape_page_with_retry(page)
    page,               \* the page whose future is being merged (0: none)
    idx,                \* position of the loop of line 330 in page_entries
    new_entries,        \* line 329
    chunk_entries,      \* line 315
    all_entries,        \* line 300
    global_seen_words,  \* line 301
    files,              \* file name -> the rows save_to_csv wrote to it
    interrupted_at,     \* where main was when KeyboardInterrupt was raised ("none")
    encountered,        \* history: the records line 331 has examined, in order
    chunks,             \* history: the chunk_pages of every chunk started, in order
    summary,            \* the totals logged by lines 359-360 (<<>>: not yet)
    disk,               \* "ok": every write succeeds; "faulty": a write may fail
    probe,              \* history: instrumented page -> its scrape_page calls
    write_failed,       \* history: the files whose write raised (caught by line 279)
    driver_reports,     \* history: how often line 67 has logged a driver failure
    finished,           \* the finished futures as_completed has yet to yield, in order
    element             \* an instrumented call of extract_votes: what it finds, its result

vars == <<args, max_retries, disk, probe, write_failed, driver_reports, finished, element,
          pc, chunk_start, chunk_pages, tasks, page, idx,
          new_entries, chunk_entries, all_entries, global_seen_words, files,
          interrupted_at, encountered, chunks, summary>>

mainVars == <<pc, chunk_start, chunk_pages, page, idx, new_entries, chunk_entries,
              all_entries, global_seen_words, files, interrupted_at, encountered,
              chunks, summary, write_failed>>

\* list(range(lo, hi + 1))
int_range(lo, hi) == [i \in 1..(IF hi >= lo THEN hi - lo + 1 ELSE 0) |-> lo + i - 1]

\* page_numbers = list(range(args.start, args.end + 1)), line 307
page_numbers_of(a) == int_range(a.start, a.end)

page_numbers == page_numbers_of(args)

\* list slicing s[lo:hi] with 0 <= lo, on 0-based indices
slice(s, lo, hi) ==
    LET h == IF hi > Len(s) THEN Len(s) ELSE hi
    IN  IF lo >= h THEN <<>> ELSE SubSeq(s, lo + 1, h)

min(a, b) == IF a <= b THEN a ELSE b

\* chunk_end = min(chunk_start + args.chunk_size, len(page_numbers)), line 312
chunk_end_of(a, cs) == min(cs + a.chunk_size, Len(page_numbers_of(a)))

\* chunk_pages = page_numbers[chunk_start:chunk_end], line 313
chunk_pages_of(a, cs) == slice(page_numbers_of(a), cs, chunk_end_of(a, cs))

next_chunk_start_skips(a, cs) == cs + a.chunk_size + 1

\* the next value of range(0, len(page_numbers), args.chunk_size), line 311
next_chunk_start(a, cs) == cs + a.chunk_size

Range(s) == { s[i] : i \in 1..Len(s) }

\* a KeyboardInterrupt has been raised in main
interrupted == interrupted_at # "none"

\* ------------------------------------------------------------ worker tasks
\* A future just submitted by executor.submit (line 320). attempt is the
\* loop variable of line 149 while the task runs.
new_task == [st |-> "queued", attempt |-> 0, ret |-> "pending", value |-> <<>>,
             collected |-> FALSE]

Running == { p \in DOMAIN tasks : tasks[p].st = "running" }

max_workers_plus_one(a) == a.workers + 1

\* ProcessPoolExecutor(max_workers=args.workers), line 318
max_workers(a) == a.workers

\* A worker process of the pool takes a queued task; the pool has
\* max_workers = args.workers processes (line 318), which take the tasks in
\* the order line 320 submitted them, the order of chunk_pages.
TaskStart(p) ==
    /\ tasks[p].st = "queued"
    /\ \A q \in DOMAIN tasks : tasks[q].st = "queued" => p <= q
    /\ Cardinality(Running) < max_workers(args)
    /\ tasks' = [tasks EXCEPT ![p].st = "running"]
    /\ UNCHANGED <<element, args, max_retries, disk, probe, driver_reports, finished, mainVars>>

retry_step_retries_on_empty(t, p, fault, elements) ==
    IF t.attempt < max_retries
    THEN LET r == scrape_page(p, fault, elements)
         IN  IF ~r.exc /\ r.value # <<>>
             THEN [t EXCEPT !.st = "done", !.attempt = 0,
                            !.ret = "list", !.value = r.value]
             ELSE IF t.attempt < max_retries - 1
             THEN [t EXCEPT !.attempt = @ + 1]
             ELSE [t EXCEPT !.st = "done", !.attempt = 0,
                            !.ret = "list", !.value = <<>>]
    ELSE [t EXCEPT !.st = "done", !.attempt = 0, !.ret = "none"]

\* One iteration of the for loop of scrape_page_with_retry (lines 149-158),
\* or, when range(max_retries) is exhausted without a return, the end of the
\* function (which returns None).
retry_step(t, p, fault, elements) ==
    IF t.attempt < max_retries
    THEN LET r == scrape_page(p, fault, elements)
         IN  IF ~r.exc
             THEN [t EXCEPT !.st = "done", !.attempt = 0,
                            !.ret = "list", !.value = r.value]
             ELSE IF t.attempt < max_retries - 1
             THEN [t EXCEPT !.attempt = @ + 1]
             ELSE [t EXCEPT !.st = "done", !.attempt = 0,
                            !.ret = "list", !.value = <<>>]
    ELSE [t EXCEPT !.st = "done", !.attempt = 0, !.ret = "none"]

\* The browser sessions one call of scrape_page leaves without having
\* called quit() on them. The finally block (lines 255-257) quits the driver
\* that setup_driver returned; when setup_driver raises after line 58 has
\* started the browser, scrape_page's driver is still None and the browser
\* that was started is not quit.
sessions_left(fault) == IF fault = "configure_fail" THEN 1 ELSE 0

\* The instrumentation of a page: the faults of its scrape_page calls so
\* far, in order, the number of time.sleep calls of line 155, the number
\* of browser sessions started and not quit, and the definition elements
\* the last call found on the page.
new_probe == [faults |-> <<>>, sleeps |-> 0, live |-> 0, elements |-> <<>>]

probe_step(pr, t, p, fault, elements) ==
    IF t.attempt < max_retries
    THEN [faults |-> Append(pr.faults, fault),
          sleeps |-> IF retry_step(t, p, fault, elements).st = "running"
                     THEN pr.sleeps + 1 ELSE pr.sleeps,
          live |-> pr.live + sessions_left(fault),
          elements |-> elements]
    ELSE pr

\* The messages line 67 has logged after one more step of a task: one for
\* every call of setup_driver that raises.
report_step(n, t, fault) ==
    IF t.attempt < max_retries /\ fault \in {"driver_fail", "configure_fail"}
    THEN n + 1 ELSE n

RetryStep(p) ==
    /\ tasks[p].st = "running"
    /\ \E fault \in Faults :
         \E elements \in (IF fault = "ok" THEN PageContents ELSE {<<>>}) :
            /\ tasks' = [tasks EXCEPT ![p] = retry_step(@, p, fault, elements)]
            /\ driver_reports' = report_step(driver_reports, tasks[p], fault)
            /\ finished' = IF retry_step(tasks[p], p, fault, elements).st = "done"
                           THEN Append(finished, p) ELSE finished
            /\ probe' = [q \in DOMAIN probe |->
                            IF q = p THEN probe_step(probe[q], tasks[p], p, fault, elements)
                            ELSE probe[q]]
    /\ UNCHANGED <<element, args, max_retries, disk, mainVars>>

\* The worker process dies, or the task fails outside scrape_page_with_retry:
\* future.result() will raise (line 326).
TaskCrash(p) ==
    /\ tasks[p].st = "running"
    /\ tasks' = [tasks EXCEPT ![p].st = "done", ![p].attempt = 0, ![p].ret = "exc"]
    /\ finished' = Append(finished, p)
    /\ UNCHANGED <<element, args, max_retries, disk, probe, driver_reports, mainVars>>

\* ------------------------------------------------------------ save_to_csv
chunk_filename_shared(cs, ce) == <<"chunk", 0, 0>>

\* The file name of a chunk's checkpoint (line 347) and the primary output path.
chunk_filename(cs, ce) == <<"chunk", cs, ce>>
output == <<"output">>

\* How many rows a write of `entries` can get through: all of them, or, on a
\* faulty disk, none because open() fails (-1) or only the first k before
\* the OSError that line 279 catches.
Written(entries) ==
    IF disk = "faulty" THEN -1..Len(entries) ELSE {Len(entries)}

put(fs, filename, rows) ==
    [n \in DOMAIN fs \cup {filename} |-> IF n = filename THEN rows ELSE fs[n]]

\* save_to_csv(entries, filename) when the write gets through k rows
\* (k = -1: the file could not be opened); the new file system.
save_to_csv(fs, entries, filename, k) ==
    IF entries = <<>> THEN fs
    ELSE IF k < 0 THEN fs
    ELSE put(fs, filename, SubSeq(entries, 1, k))

\* The files whose write has raised, after save_to_csv(entries, filename)
\* got through k rows: lines 279-280 catch the exception and log it.
log_write(failed, entries, filename, k) ==
    IF entries # <<>> /\ k < Len(entries) THEN failed \cup {filename}
    ELSE failed \ {filename}

\* The rows of a file (none when it was never written).
rows_of(filename) == IF filename \in DOMAIN files THEN files[filename] ELSE <<>>

\* ------------------------------------------------------------------- main
admits_always(key, seen) == TRUE

\* line 332: the ledger admits a key it has not seen
admits(key, seen) == key \notin seen

seen_add_forgets(seen, key) == seen

seen_add_resets(seen, key) == {key}

\* line 333
seen_add(seen, key) == seen \cup {key}

on_future_error_aborts == "crashed"

\* lines 342-343: the exception of a future is logged and the as_completed
\* loop goes on
on_future_error == "collect"

on_keyboard_interrupt_resumes == "loop"

\* lines 351-355: KeyboardInterrupt is caught and main goes on to the final save
on_keyboard_interrupt == "final"

extend_replaces(list, new) == new

\* list.extend(new), lines 338 and 339
extend(list, new) == list \o new

chunk_entries_carried_over(previous) == previous

\* line 315: every chunk starts with an empty chunk_entries
fresh_chunk_entries(previous) == <<>>

final_rows_last_chunk == chunk_entries

\* line 355: what the final save is given
final_rows == all_entries

\* Lines 311-320: the head of the chunk loop, the slicing of the chunk, the
\* creation of the pool and the submission of one task per page.
\*   range(0, n, 0) raises ValueError, ProcessPoolExecutor(max_workers <= 0)
\*   raises ValueError: neither is caught by line 351, main ends there.
Loop ==
    /\ pc = "loop"
    /\ IF args.chunk_size = 0
       THEN /\ pc' = "crashed"
            /\ UNCHANGED <<chunk_pages, chunk_entries, tasks, chunks>>
       ELSE IF args.chunk_size > 0 /\ chunk_start < Len(page_numbers)
       THEN LET pages == chunk_pages_of(args, chunk_start)
            IN  /\ chunk_pages' = pages
                /\ chunk_entries' = fresh_chunk_entries(chunk_entries)
                /\ IF args.workers <= 0
                   THEN /\ pc' = "crashed"
                        /\ UNCHANGED <<tasks, chunks>>
                   ELSE /\ tasks' = [p \in DOMAIN tasks \cup Range(pages) |->
                                        IF p \in Range(pages) THEN new_task ELSE tasks[p]]
                        /\ chunks' = Append(chunks, pages)
                        /\ pc' = "collect"
       ELSE /\ pc' = "final"
            /\ UNCHANGED <<chunk_pages, chunk_entries, tasks, chunks>>
    /\ UNCHANGED <<element, args, max_retries, disk, probe, write_failed, driver_reports, finished,
                   chunk_start, page, idx, new_entries,
                   all_entries, global_seen_words, files, interrupted_at, encountered,
                   summary>>

\* Lines 323-329, 342-343: as_completed yields the finished futures in the
\* order they finished; the result of the one it yields is taken. A future
\* that raises, or whose result cannot be iterated (None), is logged by
\* line 343 and contributes nothing.
Collect ==
    /\ pc = "collect"
    /\ finished # <<>>
    /\ finished' = Tail(finished)
    /\ LET p == Head(finished)
       IN
         /\ tasks[p].st = "done"
         /\ ~tasks[p].collected
         /\ tasks' = [tasks EXCEPT ![p].collected = TRUE]
         /\ IF tasks[p].ret = "list"
            THEN /\ page' = p
                 /\ idx' = 1
                 /\ new_entries' = <<>>
                 /\ pc' = "admit"
            ELSE /\ pc' = on_future_error
                 /\ UNCHANGED <<page, idx, new_entries>>
    /\ UNCHANGED <<element, args, max_retries, disk, probe, write_failed, driver_reports,
                   chunk_start, chunk_pages, chunk_entries,
                   all_entries, global_seen_words, files, interrupted_at, encountered,
                   chunks, summary>>

\* Lines 330-336: one iteration of the loop over page_entries.
Admit ==
    /\ pc = "admit"
    /\ idx <= Len(tasks[page].value)
    /\ LET entry == tasks[page].value[idx]
           key   == word_key(entry.word)
       IN  /\ encountered' = Append(encountered, entry)
           /\ IF admits(key, global_seen_words)
              THEN /\ global_seen_words' = seen_add(global_seen_words, key)
                   /\ new_entries' = Append(new_entries, entry)
              ELSE UNCHANGED <<global_seen_words, new_entries>>
    /\ idx' = idx + 1
    /\ UNCHANGED <<element, args, max_retries, disk, probe, write_failed, driver_reports, finished,
                   pc, chunk_start, chunk_pages, tasks, page,
                   chunk_entries, all_entries, files, interrupted_at, chunks, summary>>

\* Lines 338-340: the page's new entries join the chunk and the run.
Extend ==
    /\ pc = "admit"
    /\ idx > Len(tasks[page].value)
    /\ chunk_entries' = extend(chunk_entries, new_entries)
    /\ all_entries' = extend(all_entries, new_entries)
    /\ pc' = "collect"
    /\ UNCHANGED <<element, args, max_retries, disk, probe, write_failed, driver_reports, finished,
                   chunk_start, chunk_pages, tasks, page, idx,
                   new_entries, global_seen_words, files, interrupted_at, encountered,
                   chunks, summary>>

PoolExit_without_waiting ==
    /\ pc = "collect"
    /\ pc' = "save_chunk"
    /\ UNCHANGED <<element, args, max_retries, disk, probe, write_failed, driver_reports, finished,
                   chunk_start, chunk_pages, tasks, page, idx,
                   new_entries, chunk_entries, all_entries, global_seen_words, files,
                   interrupted_at, encountered, chunks, summary>>

\* The end of the with block of line 318 once as_completed is exhausted.
PoolExit ==
    /\ pc = "collect"
    /\ \A p \in Range(chunk_pages) : tasks[p].collected
    /\ pc' = "save_chunk"
    /\ UNCHANGED <<element, args, max_retries, disk, probe, write_failed, driver_reports, finished,
                   chunk_start, chunk_pages, tasks, page, idx,
                   new_entries, chunk_entries, all_entries, global_seen_words, files,
                   interrupted_at, encountered, chunks, summary>>

\* Lines 346-349, then the next value of the loop variable.
SaveChunk ==
    /\ pc = "save_chunk"
    /\ LET filename == chunk_filename(chunk_start, chunk_end_of(args, chunk_start))
       IN  \E k \in Written(chunk_entries) :
             /\ files' = save_to_csv(files, chunk_entries, filename, k)
             /\ write_failed' = log_write(write_failed, chunk_entries, filename, k)
    /\ chunk_start' = next_chunk_start(args, chunk_start)
    /\ pc' = "loop"
    /\ UNCHANGED <<element, args, max_retries, disk, probe, driver_reports, finished,
                   chunk_pages, tasks, page, idx, new_entries,
                   chunk_entries, all_entries, global_seen_words, interrupted_at,
                   encountered, chunks, summary>>

\* Lines 355-360: the final save and the summary.
Finalize ==
    /\ pc = "final"
    /\ \E k \in Written(final_rows) :
         /\ files' = save_to_csv(files, final_rows, output, k)
         /\ write_failed' = log_write(write_failed, final_rows, output, k)
    /\ summary' = <<[entries |-> Len(all_entries),
                     unique |-> Cardinality(global_seen_words)]>>
    /\ pc' = "done"
    /\ UNCHANGED <<element, args, max_retries, disk, probe, driver_reports, finished,
                   chunk_start, chunk_pages, tasks, page, idx,
                   new_entries, chunk_entries, all_entries, global_seen_words,
                   interrupted_at, encountered, chunks>>

\* KeyboardInterrupt raised in main inside the try block (lines 309-349).
\* Nothing between line 309 and line 351 catches it (line 342 catches
\* Exception only), so control leaves the with block, whose exit waits for
\* the pool (drain), and reaches line 351.
Interrupted ==
    /\ ~interrupted
    /\ interrupted_at' = pc
    /\ UNCHANGED <<element, args, max_retries, disk, probe, write_failed, driver_reports, finished,
                   chunk_start, chunk_pages, tasks, page,
                   idx, new_entries, chunk_entries, all_entries, chunks, summary>>

\* ... at the head of the chunk loop, between two chunks.
InterruptAtLoop ==
    /\ pc = "loop"
    /\ Interrupted
    /\ pc' = on_keyboard_interrupt
    /\ UNCHANGED <<global_seen_words, encountered, files>>

\* ... inside the with block, between two statements that change the ledger.
InterruptInCollect ==
    /\ pc \in {"collect", "admit"}
    /\ Interrupted
    /\ pc' = "drain"
    /\ UNCHANGED <<global_seen_words, encountered, files>>

\* ... between line 333 and line 334: the key is recorded, the entry is not.
InterruptInAdmit ==
    /\ pc = "admit"
    /\ idx <= Len(tasks[page].value)
    /\ Interrupted
    /\ LET entry == tasks[page].value[idx]
           key   == word_key(entry.word)
       IN  /\ admits(key, global_seen_words)
           /\ global_seen_words' = seen_add(global_seen_words, key)
           /\ encountered' = Append(encountered, entry)
    /\ pc' = "drain"
    /\ UNCHANGED files

\* ... before or inside save_to_csv of the chunk: the checkpoint may hold
\* only its first k rows, or not exist.
InterruptInSave ==
    /\ pc = "save_chunk"
    /\ Interrupted
    /\ \E k \in -1..Len(chunk_entries) :
         files' = save_to_csv(files, chunk_entries,
                              chunk_filename(chunk_start, chunk_end_of(args, chunk_start)), k)
    /\ pc' = on_keyboard_interrupt
    /\ UNCHANGED <<global_seen_words, encountered>>

Interrupt ==
    \/ InterruptAtLoop
    \/ InterruptInCollect
    \/ InterruptInAdmit
    \/ InterruptInSave

\* The exit of the with block on the way out: ProcessPoolExecutor.__exit__
\* is shutdown(wait=True), which returns once every submitted task is done.
Drain ==
    /\ pc = "drain"
    /\ \A p \in Range(chunk_pages) : tasks[p].st = "done"
    /\ pc' = on_keyboard_interrupt
    /\ UNCHANGED <<element, args, max_retries, disk, probe, write_failed, driver_reports, finished,
                   chunk_start, chunk_pages, tasks, page, idx,
                   new_entries, chunk_entries, all_entries, global_seen_words, files,
                   interrupted_at, encountered, chunks, summary>>

\* ----------------------------------------------------------- specification
\* No call of extract_votes is instrumented.
no_element == [found |-> <<>>, returned |-> FALSE, votes |-> 0]

ArgSets ==
    { [start |-> s, end |-> e, workers |-> w, chunk_size |-> c] :
        s \in 1..MaxStart, e \in 0..MaxEnd,
        w \in 0..MaxWorkers, c \in -1..MaxChunk }

InitRun ==
    /\ args \in { a \in ArgSets : a.end >= a.start - 1 }
    /\ max_retries = default_max_retries
    /\ pc = "loop"
    /\ chunk_start = 0
    /\ chunk_pages = <<>>
    /\ tasks = <<>>
    /\ page = 0
    /\ idx = 0
    /\ new_entries = <<>>
    /\ chunk_entries = <<>>
    /\ all_entries = <<>>
    /\ global_seen_words = {}
    /\ files = <<>>
    /\ interrupted_at = "none"
    /\ encountered = <<>>
    /\ chunks = <<>>
    /\ summary = <<>>

\* A run on storage that does not fail.
Init ==
    /\ InitRun
    /\ disk = "ok"
    /\ probe = <<>>
    /\ write_failed = {}
    /\ driver_reports = 0
    /\ finished = <<>>
    /\ element = no_element

\* The steps of the worker processes of the pool.
TaskStarts == \E p \in DOMAIN tasks : TaskStart(p)

RetrySteps == \E p \in DOMAIN tasks : RetryStep(p)

TaskCrashes == \E p \in DOMAIN tasks : TaskCrash(p)

Worker == TaskStarts \/ RetrySteps \/ TaskCrashes

Next ==
    \/ Loop
    \/ Collect
    \/ Admit
    \/ Extend
    \/ PoolExit
    \/ SaveChunk
    \/ Finalize
    \/ Interrupt
    \/ Drain
    \/ Worker

Spec == Init /\ [][Next]_vars

\* The orchestrator and the workers keep taking steps while they can: the
\* main thread is never suspended for good, and a page load is bounded by
\* the timeouts of lines 59 and 184.
FairSpec == Spec /\ WF_vars(Next)

\* The same run on storage that can fail: open() or a row write may raise,
\* which save_to_csv catches and logs (lines 279-280).
InitFaulty ==
    /\ InitRun
    /\ disk = "faulty"
    /\ probe = <<>>
    /\ write_failed = {}
    /\ driver_reports = 0
    /\ finished = <<>>
    /\ element = no_element

FaultySpec == InitFaulty /\ [][Next]_vars

\* scrape_page_with_retry(page_num, max_retries) called directly, for every
\* page and every max_retries, with its scrape_page calls instrumented.
InitRetry ==
    /\ args = [start |-> 1, end |-> MaxEnd, workers |-> 1,
               chunk_size |-> 1]
    /\ max_retries \in 0..MaxRetries
    /\ disk = "ok"
    /\ write_failed = {}
    /\ driver_reports = 0
    /\ finished = <<>>
    /\ element = no_element
    /\ pc = "direct"
    /\ chunk_start = 0
    /\ chunk_pages = <<>>
    /\ \E p \in Range(page_numbers) :
         /\ tasks = [q \in {p} |-> [new_task EXCEPT !.st = "running"]]
         /\ probe = [q \in {p} |-> new_probe]
    /\ page = 0
    /\ idx = 0
    /\ new_entries = <<>>
    /\ chunk_entries = <<>>
    /\ all_entries = <<>>
    /\ global_seen_words = {}
    /\ files = <<>>
    /\ interrupted_at = "none"
    /\ encountered = <<>>
    /\ chunks = <<>>
    /\ summary = <<>>

NextRetry == RetrySteps

RetrySpec == InitRetry /\ [][NextRetry]_vars

\* extract_votes called directly on an element, for everything its three
\* selectors can yield.
InitExtract ==
    /\ element \in [found : [Selectors -> SelectorOutcomes], returned : {FALSE}, votes : {0}]
    /\ args = [start |-> 1, end |-> 1, workers |-> 1, chunk_size |-> 1]
    /\ max_retries = default_max_retries
    /\ disk = "ok"
    /\ write_failed = {}
    /\ driver_reports = 0
    /\ finished = <<>>
    /\ probe = <<>>
    /\ pc = "direct"
    /\ chunk_start = 0
    /\ chunk_pages = <<>>
    /\ tasks = <<>>
    /\ page = 0
    /\ idx = 0
    /\ new_entries = <<>>
    /\ chunk_entries = <<>>
    /\ all_entries = <<>>
    /\ global_seen_words = {}
    /\ files = <<>>
    /\ interrupted_at = "none"
    /\ encountered = <<>>
    /\ chunks = <<>>
    /\ summary = <<>>

\* Lines 226-227: one call of extract_votes returns.
ExtractVotes ==
    /\ element.found # <<>>
    /\ ~element.returned
    /\ element' = [element EXCEPT !.returned = TRUE, !.votes = extract_votes(element.found)]
    /\ UNCHANGED <<args, max_retries, disk, probe, write_failed, driver_reports, finished,
                   mainVars, tasks>>

NextExtract == ExtractVotes

ExtractSpec == InitExtract /\ [][NextExtract]_vars

\* -------------------------------------------------------------- properties
\* The normalized term of the claims: the term trimmed, then lowercased.
NormalizedTerm(w) == lower(strip(w))

SameTerm(r1, r2) == NormalizedTerm(r1.word) = NormalizedTerm(r2.word)

NoDuplicateTerms(rows) ==
    \A i, j \in 1..Len(rows) : SameTerm(rows[i], rows[j]) => i = j

\* r is the first record with its normalized term that line 331 examined.
IsFirstEncountered(r) ==
    \E i \in 1..Len(encountered) :
        /\ encountered[i] = r
        /\ \A j \in 1..(i - 1) : ~SameTerm(encountered[j], r)

RECURSIVE Flatten(_)
Flatten(ss) == IF ss = <<>> THEN <<>> ELSE Head(ss) \o Flatten(Tail(ss))

IsPrefix(s, t) == Len(s) <= Len(t) /\ SubSeq(t, 1, Len(s)) = s

\* C1: in every reachable state of a run (before, during and after any
\* chunk, and after an interruption) no two records of all_entries, and no
\* two rows of the final artifact, have the same normalized word.
C1_NoDuplicateWords ==
    /\ NoDuplicateTerms(all_entries)
    /\ NoDuplicateTerms(rows_of(output))

\* An interrupted run met two spellings of one term and wrote an artifact.
C1_Witness ==
    /\ pc = "done"
    /\ interrupted
    /\ Len(rows_of(output)) >= 2
    /\ \E i, j \in 1..Len(encountered) :
         /\ i # j
         /\ SameTerm(encountered[i], encountered[j])
         /\ encountered[i].word # encountered[j].word

\* C2: in a run that is not interrupted, a normalized term that occurs, once
\* or many times, among the records returned by the collected pages has
\* exactly one record in the final set.
C2_IdempotentAdmission ==
    (pc = "done" /\ ~interrupted) =>
        \A p \in DOMAIN tasks :
            tasks[p].ret = "list" =>
                \A i \in 1..Len(tasks[p].value) :
                    Cardinality({ j \in 1..Len(all_entries) :
                                    SameTerm(all_entries[j], tasks[p].value[i]) }) = 1

\* A finished run in which pages of two different chunks returned the term.
C2_Witness ==
    /\ pc = "done"
    /\ ~interrupted
    /\ Len(chunks) >= 2
    /\ \E p \in Range(chunks[1]), q \in Range(chunks[2]) :
         /\ tasks[p].ret = "list"
         /\ tasks[q].ret = "list"
         /\ \E i \in 1..Len(tasks[p].value), j \in 1..Len(tasks[q].value) :
              SameTerm(tasks[p].value[i], tasks[q].value[j])

\* "Lit" and "lit " as the page holds them have one key once extracted.
C3_KeyIsTrimmedLowercased ==
    \A a, b \in RawTexts :
        (NormalizedTerm(a) = NormalizedTerm(b))
            <=> (word_key(extract_text_safely(a)) = word_key(extract_text_safely(b)))

\* C3: the dedup key is the term trimmed and lowercased: records whose terms
\* differ only in case or surrounding whitespace are duplicates whatever
\* their other fields, and of the records sharing a key only the first one
\* the orchestrator encountered is retained.
C3_FirstEncounteredRetained ==
    /\ C3_KeyIsTrimmedLowercased
    /\ NoDuplicateTerms(all_entries)
    /\ \A i \in 1..Len(all_entries) : IsFirstEncountered(all_entries[i])
    /\ \A i \in 1..Len(new_entries) : IsFirstEncountered(new_entries[i])
    /\ (pc # "admit" /\ interrupted_at # "admit") =>
           \A i \in 1..Len(encountered) :
               IsFirstEncountered(encountered[i]) => encountered[i] \in Range(all_entries)

\* Two records that differ in spelling and in page: the first met is kept,
\* the second is not.
C3_Witness ==
    /\ pc = "done"
    /\ \E i, j \in 1..Len(encountered) :
         /\ i < j
         /\ SameTerm(encountered[i], encountered[j])
         /\ encountered[i].word # encountered[j].word
         /\ encountered[i].page # encountered[j].page
         /\ encountered[i] \in Range(all_entries)
         /\ encountered[j] \notin Range(all_entries)

\* The chunks the loop of lines 311-313 generates for the arguments a, from
\* the loop value cs on.
RECURSIVE chunk_list(_, _)
chunk_list(a, cs) ==
    IF cs < Len(page_numbers_of(a))
    THEN <<chunk_pages_of(a, cs)>> \o chunk_list(a, next_chunk_start(a, cs))
    ELSE <<>>

\* start=1, end=120, chunk-size=50 gives [1-50], [51-100], [101-120].
C4_Example ==
    chunk_list([start |-> 1, end |-> 120, workers |-> 2, chunk_size |-> 50], 0)
        = <<int_range(1, 50), int_range(51, 100), int_range(101, 120)>>

\* C4: for start <= end and a positive chunk size the chunks are contiguous,
\* non-overlapping sub-ranges processed in ascending order (together a
\* prefix of the page range at any time, the whole range once the loop has
\* ended), and each chunk but possibly the last has chunk-size pages.
C4_PartitionCompleteness ==
    /\ C4_Example
    /\ (args.start <= args.end /\ args.chunk_size > 0) =>
        /\ IsPrefix(Flatten(chunks), page_numbers)
        /\ \A i \in 1..Len(chunks) :
             \/ Len(chunks[i]) = args.chunk_size
             \/ /\ i = Len(chunks)
                /\ Flatten(chunks) = page_numbers
                /\ Len(chunks[i]) \in 1..(args.chunk_size - 1)
        /\ (pc \in {"final", "done"} /\ ~interrupted) => Flatten(chunks) = page_numbers

\* A finished run of several chunks whose last chunk is a short one.
C4_Witness ==
    /\ pc = "done"
    /\ ~interrupted
    /\ Len(chunks) >= 2
    /\ Len(chunks[Len(chunks)]) < args.chunk_size
    /\ Flatten(chunks) = page_numbers

\* C5: when scrape_page fails on every attempt, scrape_page_with_retry calls
\* it exactly max_retries times, then returns the empty list, and no
\* exception escapes.
C5_RetryExhaustionYieldsEmpty ==
    \A p \in DOMAIN probe :
        (/\ tasks[p].st = "done"
         /\ \A i \in 1..Len(probe[p].faults) : probe[p].faults[i] = "quit_fail")
        => /\ Len(probe[p].faults) = max_retries
           /\ tasks[p].ret = "list"
           /\ tasks[p].value = <<>>

\* C6: a transient extraction failure inside the processing of a page makes
\* the page be attempted again, as long as fewer than max_retries attempts
\* have been made.
C6_TransientFailureRetried ==
    \A p \in DOMAIN probe :
        (/\ probe[p].faults # <<>>
         /\ probe[p].faults[Len(probe[p].faults)] = "load_fail"
         /\ Len(probe[p].faults) < max_retries)
        => tasks[p].st = "running"

\* The records line 331 examined that come from page p, in order.
EncounteredOf(p) ==
    LET FromP(r) == r.page = p IN SelectSeq(encountered, FromP)

\* What a page contributes to the merge: its list, or nothing when its
\* future raised or returned no list.
Contribution(p) == IF tasks[p].ret = "list" THEN tasks[p].value ELSE <<>>

\* C7: a page whose task fails on every attempt or raises at the collection
\* point does not abort the chunk or the run: every page of the chunk is
\* collected, the failed page counts as a page of zero records, the chunk's
\* accepted records are exactly the first-met records of the other pages,
\* and the following chunks still run.
C7_PartialFailureIsolation ==
    /\ (args.chunk_size > 0 /\ args.workers > 0) => pc # "crashed"
    /\ pc = "save_chunk" =>
        /\ \A p \in Range(chunk_pages) :
             /\ tasks[p].collected
             /\ EncounteredOf(p) = Contribution(p)
        /\ LET Kept(r) == r.page \in Range(chunk_pages) /\ IsFirstEncountered(r)
           IN  chunk_entries = SelectSeq(encountered, Kept)
    /\ (/\ pc \in {"final", "done"}
        /\ ~interrupted
        /\ args.start <= args.end
        /\ args.chunk_size > 0) => Flatten(chunks) = page_numbers

\* A finished run whose first chunk had a page that raised at the collection
\* point and another page whose records were all accepted, and whose second
\* chunk contributed a record too.
C7_Witness ==
    /\ pc = "done"
    /\ ~interrupted
    /\ Len(chunks) >= 2
    /\ \E p, q \in Range(chunks[1]) :
         /\ tasks[p].ret = "exc"
         /\ tasks[q].ret = "list"
         /\ tasks[q].value # <<>>
         /\ Range(tasks[q].value) \subseteq Range(all_entries)
    /\ \E r \in Range(chunks[2]) :
         /\ tasks[r].ret = "list"
         /\ Range(tasks[r].value) \cap Range(all_entries) # {}

\* C8 as stated: after an interruption that arrives once chunk k (k >= 1) is
\* complete and while chunk k+1 runs, no record of a page of chunk k+1 is in
\* the final artifact.
C8_NoRecordOfInterruptedChunk ==
    (pc = "done" /\ interrupted_at \in {"collect", "admit"} /\ Len(chunks) >= 2) =>
        \A i \in 1..Len(rows_of(output)) :
            rows_of(output)[i].page \notin Range(chunk_pages)

\* The merge of page p went through line 339.
Merged(p) ==
    /\ p \in DOMAIN tasks
    /\ tasks[p].collected
    /\ tasks[p].ret = "list"
    /\ ~(interrupted_at = "admit" /\ p = page)

\* The chunks that completed before the interruption.
CompletedChunks ==
    IF interrupted_at \in {"collect", "admit"} THEN Len(chunks) - 1 ELSE Len(chunks)

\* C8, amended: after an interruption the final artifact holds exactly the
\* records the ledger accepted from chunks 1..k and from the pages of chunk
\* k+1 whose merge had completed when the signal arrived; a page contributes
\* all of its accepted records or none, and every row is a whole record
\* that its page returned.
C8_InterruptionCheckpointIntegrity ==
    (pc = "done" /\ interrupted) =>
        /\ rows_of(output) = all_entries
        /\ Range(all_entries) =
             { r \in Range(encountered) : Merged(r.page) /\ IsFirstEncountered(r) }
        /\ \A i \in 1..Len(all_entries) :
             all_entries[i] \in Range(tasks[all_entries[i].page].value)
        /\ \A c \in 1..CompletedChunks : \A p \in Range(chunks[c]) :
             /\ tasks[p].collected
             /\ EncounteredOf(p) = Contribution(p)

\* Interrupted in the second chunk: the artifact holds a record of the first
\* chunk, while a page of the second chunk returned records and its merge
\* had not completed, so that none of them is in the artifact.
C8_Witness ==
    /\ pc = "done"
    /\ interrupted_at \in {"collect", "admit"}
    /\ Len(chunks) = 2
    /\ \E i \in 1..Len(rows_of(output)) : rows_of(output)[i].page \in Range(chunks[1])
    /\ \E p \in Range(chunks[2]) :
         /\ tasks[p].ret = "list"
         /\ tasks[p].value # <<>>
         /\ ~Merged(p)
         /\ \A i \in 1..Len(rows_of(output)) : rows_of(output)[i].page # p

\* C9: after an interruption during a chunk every submitted task of the
\* chunk has finished, and the term of every record it returned is in the
\* final artifact.
C9_SubmittedWorkAccumulated ==
    (pc = "done" /\ interrupted_at \in {"collect", "admit"}) =>
        \A p \in Range(chunk_pages) :
            /\ tasks[p].st = "done"
            /\ tasks[p].ret = "list" =>
                 \A i \in 1..Len(tasks[p].value) :
                     \E j \in 1..Len(rows_of(output)) :
                         SameTerm(rows_of(output)[j], tasks[p].value[i])

\* C10: once main has been interrupted no further page is submitted and
\* nothing more is accumulated; the run goes on to the final save and the
\* summary; the final artifact holds every record accumulated up to the
\* interruption and the summary reports the totals.
C10_InterruptStopsSchedulingAndFinalizes ==
    /\ [][interrupted =>
            /\ chunks' = chunks
            /\ DOMAIN tasks' = DOMAIN tasks
            /\ all_entries' = all_entries]_vars
    /\ (interrupted ~> pc = "done")
    /\ [](pc = "done" /\ interrupted =>
            /\ rows_of(output) = all_entries
            /\ summary = <<[entries |-> Len(all_entries),
                            unique |-> Cardinality(global_seen_words)]>>)

\* Interrupted while a chunk ran, with records accumulated and a later chunk
\* never started: the artifact holds the records.
C10_Witness ==
    /\ pc = "done"
    /\ interrupted_at \in {"collect", "admit"}
    /\ Flatten(chunks) # page_numbers
    /\ all_entries # <<>>
    /\ rows_of(output) = all_entries
    /\ summary # <<>>

\* The value of the loop variable of line 311 for the c-th chunk.
ChunkStartOf(c) == (c - 1) * args.chunk_size

\* The checkpoint file of the c-th chunk.
ChunkFile(c) == chunk_filename(ChunkStartOf(c), chunk_end_of(args, ChunkStartOf(c)))

\* The records the ledger accepted from the pages of the c-th chunk, in order.
AcceptedOf(c) ==
    LET Kept(r) == r.page \in Range(chunks[c]) /\ IsFirstEncountered(r)
    IN  SelectSeq(encountered, Kept)

\* C11: chunks are processed one after the other: whenever a chunk has been
\* submitted, every task of every earlier chunk has finished (with a list,
\* without one, or by raising), its result has been merged through the
\* ledger, and the earlier chunk's accepted records have been written to its
\* checkpoint; the only tasks not yet finished are tasks of the last chunk.
C11_ChunksStrictlySequential ==
    /\ \A c \in 1..(Len(chunks) - 1) :
         /\ \A p \in Range(chunks[c]) :
              /\ tasks[p].st = "done"
              /\ tasks[p].collected
              /\ EncounteredOf(p) = Contribution(p)
         /\ Range(AcceptedOf(c)) \subseteq Range(all_entries)
         /\ AcceptedOf(c) # <<>> => rows_of(ChunkFile(c)) = AcceptedOf(c)
    /\ \A p \in DOMAIN tasks :
         tasks[p].st # "done" => chunks # <<>> /\ p \in Range(chunks[Len(chunks)])

\* The second chunk has a task in flight; the first chunk had a page that
\* raised and a page with accepted records, which are in its checkpoint.
C11_Witness ==
    /\ Len(chunks) >= 2
    /\ \E p \in Range(chunks[2]) : tasks[p].st = "running"
    /\ \E p \in Range(chunks[1]) : tasks[p].ret = "exc"
    /\ AcceptedOf(1) # <<>>
    /\ rows_of(ChunkFile(1)) = AcceptedOf(1)

\* The c-th chunk has gone through lines 346-349.
Checkpointed(c) ==
    /\ c \in 1..Len(chunks)
    /\ \/ c < Len(chunks)
       \/ /\ pc \in {"loop", "final", "done"}
          /\ interrupted_at \notin {"collect", "admit", "save_chunk"}

DistinctlyNamed(c) ==
    /\ ChunkFile(c) # output
    /\ \A d \in 1..Len(chunks) : d # c => ChunkFile(d) # ChunkFile(c)

C13_NoHardFailure ==
    /\ [](pc # "crashed")
    /\ <>(pc = "done" /\ summary # <<>>)

\* C14: when the browser driver cannot be initialized the failure is
\* reported once and the run aborts before any chunk starts: no page of any
\* chunk has been submitted.
C14_DriverFailureAbortsBeforeChunks ==
    driver_reports > 0 =>
        /\ driver_reports = 1
        /\ chunks = <<>>
        /\ DOMAIN tasks = {}

\* C15: no browser session is leaked: whenever an attempt at a page has
\* returned or raised (so between two attempts and after the last), every
\* session started during it has been quit, on every exit path.
C15_NoSessionLeaked ==
    \A p \in DOMAIN probe : probe[p].live = 0

Terms(rows) == { NormalizedTerm(rows[i].word) : i \in 1..Len(rows) }

TermsOf(records) == { NormalizedTerm(r.word) : r \in records }

\* The records the tasks of the c-th chunk returned: the fixed per-page
\* result lists, whatever the order the tasks complete in.
Returned(c) == UNION { Range(Contribution(p)) : p \in Range(chunks[c]) }

\* The terms returned by the chunks before the c-th.
TermsBefore(c) == UNION { TermsOf(Returned(d)) : d \in 1..(c - 1) }

\* The records the c-th chunk accepts when its tasks complete in the order
\* of their pages, which is one of the completion orders.
InPageOrder(c) ==
    { r \in Returned(c) :
        /\ NormalizedTerm(r.word) \notin TermsBefore(c)
        /\ \A r2 \in Returned(c) : SameTerm(r, r2) => r.page <= r2.page }

\* C16 as stated: whatever the order the tasks of a chunk complete in, the
\* chunk accepts the same records, those it accepts when the tasks complete
\* in page order, and the final artifact holds the same records.
C16_SameRecordsInEveryOrder ==
    /\ pc = "save_chunk" => Range(chunk_entries) = InPageOrder(Len(chunks))
    /\ (pc = "done" /\ ~interrupted) =>
           Range(rows_of(output)) = UNION { InPageOrder(c) : c \in 1..Len(chunks) }

\* C16, amended: whatever the order the tasks of a chunk complete in, the
\* chunk accepts one record for each normalized term its pages returned
\* that no earlier chunk returned, and the final artifact holds one row for
\* each normalized term returned in the run: the same terms and the same
\* number of records in every order.
C16_SameTermsInEveryOrder ==
    /\ pc = "save_chunk" =>
           LET c == Len(chunks)
           IN  /\ Terms(chunk_entries) = TermsOf(Returned(c)) \ TermsBefore(c)
               /\ Terms(chunk_entries) = TermsOf(InPageOrder(c))
               /\ Len(chunk_entries) = Cardinality(InPageOrder(c))
    /\ (pc = "done" /\ ~interrupted) =>
           /\ Terms(rows_of(output)) = TermsBefore(Len(chunks) + 1)
           /\ Len(rows_of(output)) = Cardinality(TermsBefore(Len(chunks) + 1))

\* A chunk of two pages that returned two spellings of one term: the page
\* with the higher number completed first and its record is the one kept.
C16_Witness ==
    /\ pc = "save_chunk"
    /\ \E p, q \in Range(chunk_pages) :
         /\ p < q
         /\ \E i \in 1..Len(Contribution(p)), j \in 1..Len(Contribution(q)) :
              /\ SameTerm(Contribution(p)[i], Contribution(q)[j])
              /\ Contribution(p)[i].word # Contribution(q)[j].word
              /\ Contribution(q)[j] \in Range(chunk_entries)
              /\ Contribution(p)[i] \notin Range(chunk_entries)

\* C17: in every reachable state at most args.workers page fetches are
\* executing, and every one of them is a page of the one chunk being
\* processed, the last chunk started.
C17_ConcurrencyBounded ==
    /\ Cardinality(Running) <= args.workers
    /\ Running \subseteq Range(chunk_pages)
    /\ Running # {} => chunk_pages = chunks[Len(chunks)]

\* The pool is full: as many fetches as workers are executing and a page of
\* the chunk waits for a worker.
C17_Witness ==
    /\ Running # {}
    /\ Cardinality(Running) = args.workers
    /\ \E p \in Range(chunk_pages) : tasks[p].st = "queued"

\* C18: whatever text extraction reads for a vote counter (digits, empty,
\* signed, non-numeric), the count of the record is a non-negative integer,
\* and it is 0 when the text cannot be parsed as an integer.
C18_CountsNonNegative ==
    element.returned =>
        /\ element.votes \in Nat
        /\ ~int(vote_text_after(element.found, 1, <<>>)).ok => element.votes = 0

\* C19: whenever main is between two page merges (at the chunk boundaries
\* and at the final save, also after an interruption or after an exception
\* caught by line 342) the normalized terms of the records of all_entries
\* are exactly global_seen_words, so that the two totals of the summary are
\* equal.
C19_LedgerInStepWithEntries ==
    /\ pc \in {"loop", "collect", "save_chunk", "final", "done"} =>
           Terms(all_entries) = global_seen_words
    /\ summary # <<>> => summary[1].entries = summary[1].unique

\* C20: when a run has gone through all its chunks with no interruption
\* and no failed write, the records of the final artifact are exactly the
\* records of the checkpoints of its chunks taken together; and the
\* checkpoints of two different chunks never hold records with the same
\* normalized term.
C20_FinalIsUnionOfCheckpoints ==
    /\ (pc = "done" /\ ~interrupted /\ write_failed = {}) =>
           Range(rows_of(output)) =
               UNION { Range(rows_of(ChunkFile(c))) : c \in 1..Len(chunks) }
    /\ \A c, d \in 1..Len(chunks) :
           c # d => Terms(rows_of(ChunkFile(c))) \cap Terms(rows_of(ChunkFile(d))) = {}

\* A finished run of two chunks on storage that can fail, none of whose
\* writes failed: both chunks have a checkpoint, and a term the first chunk
\* accepted was returned again in the second.
C20_Witness ==
    /\ pc = "done"
    /\ ~interrupted
    /\ disk = "faulty"
    /\ write_failed = {}
    /\ Len(chunks) = 2
    /\ rows_of(ChunkFile(1)) # <<>>
    /\ rows_of(ChunkFile(2)) # <<>>
    /\ TermsOf(Returned(1)) \cap TermsOf(Returned(2)) # {}
    /\ Len(rows_of(output)) = Len(rows_of(ChunkFile(1))) + Len(rows_of(ChunkFile(2)))

\* C21: no step of a run removes a term from global_seen_words or resets
\* it; and a step in which line 331 examines a record whose normalized
\* term is already in global_seen_words leaves global_seen_words, the
\* page's and the chunk's record lists and all_entries as they are.
C21_SeenOnlyGrows ==
    [][/\ global_seen_words \subseteq global_seen_words'
       /\ (/\ Len(encountered') = Len(encountered) + 1
           /\ NormalizedTerm(encountered'[Len(encountered')].word) \in global_seen_words)
          => /\ global_seen_words' = global_seen_words
             /\ new_entries' = new_entries
             /\ chunk_entries' = chunk_entries
             /\ all_entries' = all_entries]_vars

\* A finished run of two chunks with two terms in the ledger, in which a
\* record of the second chunk was rejected for a term the first chunk gave.
C21_Witness ==
    /\ pc = "done"
    /\ Len(chunks) >= 2
    /\ Cardinality(global_seen_words) >= 2
    /\ \E i, j \in 1..Len(encountered) :
         /\ i < j
         /\ SameTerm(encountered[i], encountered[j])
         /\ encountered[i].page \in Range(chunks[1])
         /\ encountered[j].page \in Range(chunks[2])
    /\ Len(all_entries) = Cardinality(global_seen_words)

\* The element has a term as far as the page's processing can tell: its
\* .word text can be read and is not empty once trimmed.
HasTerm(el) == el.raises # "word" /\ strip(el.text) # <<>>

\* C22: the list one page's processing returns holds no record whose term
\* is empty after trimming and no two records with the same normalized
\* term; and when several elements of the page have the same normalized
\* term, the record of the first of them in page order is the one kept.
C22_PageLocalFiltering ==
    \A p \in DOMAIN probe :
        (/\ tasks[p].st = "done"
         /\ tasks[p].ret = "list"
         /\ probe[p].faults # <<>>
         /\ probe[p].faults[Len(probe[p].faults)] = "ok")
        => LET els == probe[p].elements
               value == tasks[p].value
           IN  /\ \A n \in 1..Len(value) : strip(value[n].word) # <<>>
               /\ NoDuplicateTerms(value)
               /\ \A i, j \in 1..Len(els) :
                    (/\ i < j
                     /\ HasTerm(els[i])
                     /\ HasTerm(els[j])
                     /\ NormalizedTerm(els[i].text) = NormalizedTerm(els[j].text)
                     /\ \A k \in 1..(i - 1) :
                          HasTerm(els[k]) =>
                              NormalizedTerm(els[k].text) # NormalizedTerm(els[i].text))
                    => \E n \in 1..Len(value) : value[n].word = strip(els[i].text)

\* The call of scrape_page raised: the attempt failed as far as
\* scrape_page_with_retry can tell.
Raised(fault) == fault = "quit_fail"

\* C23: for max_retries >= 1, scrape_page is called again only after a
\* call that raised, each of which is followed by one sleep; when the first
\* call that does not raise is the k-th (k <= max_retries) the function
\* returns the result of that call after k calls and k - 1 sleeps; when all
\* max_retries calls raise it returns the empty list without sleeping after
\* the last; what it returns is a list.
C23_RetryStopsAtFirstSuccess ==
    \A p \in DOMAIN probe :
        max_retries >= 1 =>
            LET f == probe[p].faults
                k == Len(f)
            IN  /\ k <= max_retries
                /\ \A i \in 1..(k - 1) : Raised(f[i])
                /\ tasks[p].st = "running" =>
                       /\ k < max_retries
                       /\ probe[p].sleeps = k
                       /\ \A i \in 1..k : Raised(f[i])
                /\ tasks[p].st = "done" =>
                       /\ k >= 1
                       /\ probe[p].sleeps = k - 1
                       /\ tasks[p].ret = "list"
                       /\ ~Raised(f[k]) =>
                              tasks[p].value =
                                  (IF f[k] = "ok"
                                   THEN page_loop(probe[p].elements, p, {}, <<>>)
                                   ELSE <<>>)
                       /\ Raised(f[k]) => k = max_retries /\ tasks[p].value = <<>>

\* With max_retries = 3 the first call raised and the second returned
\* records: two calls, one sleep, the records returned.
C23_Witness ==
    /\ max_retries = 3
    /\ \E p \in DOMAIN probe :
         /\ tasks[p].st = "done"
         /\ probe[p].faults = <<"quit_fail", "ok">>
         /\ probe[p].sleeps = 1
         /\ tasks[p].ret = "list"
         /\ tasks[p].value # <<>>

====
